---- MODULE Spec2Model ----
(***************************************************************************)
(* A top-to-bottom execution of example.ipynb (3D-MIL-QSAR).  The state is *)
(* the notebook's namespace, the descriptors folder on disk, what has been *)
(* printed, and the log of the library calls made so far.  One action per  *)
(* statement; a statement that raises stops the execution (Run All stops   *)
(* at the first error).                                                    *)
(*                                                                         *)
(* Numerical values (descriptors, labels, weights, scores) are not         *)
(* computed.  Every array carries the identity of the rows it holds (the   *)
(* molecule a row belongs to) and where it comes from: the nconfs of the   *)
(* calc_3d_pmapper call, the number of the split, the number of the        *)
(* scaling and the part (train/test) it is.                                *)
(***************************************************************************)
EXTENDS Integers, Sequences, FiniteSets

\* Largest number of molecules in the dataset file.
MaxMols == 9
\* Number of conformations generated for a flexible molecule (a rigid one
\* has a single conformation).
MaxConfs == 2

\* nconfs = 100 (first cell)
nconfs == 100
\* n = 2, index of the molecule whose attention weights are plotted
n == 2

VARIABLES
    pc,               \* the statement to execute next
    err,              \* the exception that stopped the execution, "" if none
    folder,           \* TRUE when the folder 'descriptors' exists on disk
    dataset,          \* per molecule of the dataset file: conformations available
    hyper,            \* TRUE once n_epoch, batch_size, lr, ... are bound
    bags, labels, molid,
    x_train, x_test, y_train, y_test, molid_train, molid_test,
    ndim,
    ins_net, att_net,
    predictions,
    instance_weights,
    bars,             \* number of bars of the attention-weight plot
    out,              \* the lines printed so far
    trace             \* the library calls made so far, in order

data == <<bags, labels, molid>>
parts == <<x_train, x_test, y_train, y_test, molid_train, molid_test>>
nets == <<ins_net, att_net>>
results == <<predictions, instance_weights, bars, out>>
env == <<folder, dataset, hyper>>
vars == <<pc, err, env, data, parts, ndim, nets, results, trace>>

----------------------------------------------------------------------------
\* Values of the namespace.

\* A name that is not bound yet, for the names that hold arrays.
Unbound == [rows |-> <<>>, nconfs |-> 0, split |-> 0, scale |-> 0, part |-> ""]

\* ins_net / att_net before the cell that binds them.
NoEst == [cls |-> "", id |-> 0, ndim |-> 0, fitted |-> FALSE,
          fit_x |-> Unbound, fit_y |-> Unbound]

\* predictions before the first predict.
NoPred == [by |-> 0, cls |-> "", fitted |-> FALSE, x |-> Unbound]

\* instance_weights before get_instance_weights.
NoWeights == [by |-> 0, fitted |-> FALSE, x |-> Unbound, lens |-> <<>>]

Min(a, b) == IF a < b THEN a ELSE b

\* The molecules of the rows of an array, in row order.
Mols(a) == [i \in DOMAIN a.rows |-> a.rows[i].mol]

\* Number of calls of one kind made so far.
Count(op) == Cardinality({i \in DOMAIN trace : trace[i].op = op})

Event(op, id) == [op |-> op, id |-> id]

----------------------------------------------------------------------------
\* The library calls the notebook makes.

\* numpy.random.RandomState(42).permutation(k) for k = 0, 1, 2, ...: the
\* shuffle train_test_split(..., random_state=42) applies to k samples
\* (0-based indices, as numpy returns them).  Entry k+1 is for k samples.
Perm42 ==
    << <<>>,
       <<0>>,
       <<1, 0>>,
       <<0, 1, 2>>,
       <<1, 3, 0, 2>>,
       <<1, 4, 2, 0, 3>>,
       <<0, 1, 5, 2, 4, 3>>,
       <<0, 1, 5, 2, 4, 3, 6>>,
       <<1, 5, 0, 7, 2, 4, 3, 6>>,
       <<7, 1, 5, 0, 8, 2, 4, 3, 6>>,
       <<8, 1, 5, 0, 7, 2, 9, 4, 3, 6>>,
       <<5, 0, 9, 10, 2, 1, 8, 4, 7, 3, 6>>,
       <<10, 9, 0, 8, 5, 2, 1, 11, 4, 7, 3, 6>>,
       <<11, 9, 0, 8, 5, 2, 1, 12, 4, 7, 10, 3, 6>> >>

\* calc_3d_pmapper(dataset_file, nconfs=nc, ...): one bag, one label and one
\* id per molecule of the file, in file order; a bag holds one descriptor
\* vector per conformation, at most nc of them.
calc_3d_pmapper(ds, nc) ==
    LET arr(rows) == [rows |-> rows, nconfs |-> nc, split |-> 0, scale |-> 0,
                      part |-> "all"]
    IN  << arr([i \in 1..Len(ds) |-> [mol |-> i, ninst |-> Min(ds[i], nc)]]),
           arr([i \in 1..Len(ds) |-> [mol |-> i]]),
           arr([i \in 1..Len(ds) |-> [mol |-> i]]) >>

\* Sizes train_test_split gives the two parts with the default test_size
\* (0.25): n_test = ceil(0.25 * k), n_train = k - n_test.
n_test(k) == (k + 3) \div 4
n_train(k) == k - n_test(k)

\* The rows ind of array a, as part p of split number k.
Take(a, ind, p, k) ==
    [a EXCEPT !.rows = [i \in DOMAIN ind |-> a.rows[ind[i]]],
              !.split = k, !.part = p]

\* train_test_split(a, b, c, random_state=42), as call number k: one
\* permutation of the sample indices, its first n_test entries the test
\* part and the rest the train part, applied to every array alike; the
\* result lists train and test of each array in argument order.
train_test_split(a, b, c, k) ==
    LET len == Len(a.rows)
        perm == Perm42[len + 1]
        ind_test == [i \in 1..n_test(len) |-> perm[i] + 1]
        ind_train == [i \in 1..n_train(len) |-> perm[n_test(len) + i] + 1]
    IN  << Take(a, ind_train, "train", k), Take(a, ind_test, "test", k),
           Take(b, ind_train, "train", k), Take(b, ind_test, "test", k),
           Take(c, ind_train, "train", k), Take(c, ind_test, "test", k) >>

\* scale_descriptors(x_train, x_test), as call number k: both arrays
\* rescaled bag by bag, rows kept in place.
scale_descriptors(xtr, xte, k) ==
    << [xtr EXCEPT !.scale = k], [xte EXCEPT !.scale = k] >>

\* InstanceWrapperMLPRegressor(ndim=...) / AttentionNetRegressor(ndim=...):
\* a new, untrained estimator.
NewEstimator(cls, nd, id) ==
    [cls |-> cls, id |-> id, ndim |-> nd, fitted |-> FALSE,
     fit_x |-> Unbound, fit_y |-> Unbound]

\* est.fit(x, y, ...): trains est in place.
fit(est, x, y) == [est EXCEPT !.fitted = TRUE, !.fit_x = x, !.fit_y = y]

\* est.predict(x): one prediction per bag of x, by est as it is now.
predict(est, x) == [by |-> est.id, cls |-> est.cls, fitted |-> est.fitted, x |-> x]

\* est.get_instance_weights(x): per bag of x, one weight per instance.
get_instance_weights(est, x) ==
    [by |-> est.id, fitted |-> est.fitted, x |-> x,
     lens |-> [i \in DOMAIN x.rows |-> x.rows[i].ninst]]

\* A printed line.  count is the number printed by the descriptor cells;
\* y and pred are the arguments of r2_score for a score line.
Line(text, count, y, pred) == [text |-> text, count |-> count, y |-> y, pred |-> pred]

----------------------------------------------------------------------------
\* The state before the first cell runs: nothing is bound; the dataset file
\* holds any number of molecules, the folder may be left from an earlier run.
Init ==
    /\ pc = "mkdir"
    /\ err = ""
    /\ folder \in BOOLEAN
    /\ dataset \in UNION {[1..k -> {1, MaxConfs}] : k \in 0..MaxMols}
    /\ hyper = FALSE
    /\ bags = Unbound /\ labels = Unbound /\ molid = Unbound
    /\ x_train = Unbound /\ x_test = Unbound
    /\ y_train = Unbound /\ y_test = Unbound
    /\ molid_train = Unbound /\ molid_test = Unbound
    /\ ndim = 0
    /\ ins_net = NoEst /\ att_net = NoEst
    /\ predictions = NoPred
    /\ instance_weights = NoWeights
    /\ bars = 0
    /\ out = <<>>
    /\ trace = <<>>

\* A statement raises: the execution stops there.
Raise(e) ==
    /\ pc' = "raised"
    /\ err' = e
    /\ UNCHANGED <<env, data, parts, ndim, nets, results, trace>>

----------------------------------------------------------------------------
\* Cell 1: descriptors for multiple conformations.

\* os.mkdir(descriptors_folder)
Mkdir ==
    /\ pc = "mkdir"
    /\ IF folder
       THEN Raise("FileExistsError")
       ELSE /\ folder' = TRUE
            /\ pc' = "calc_mi"
            /\ UNCHANGED <<err, dataset, hyper, data, parts, ndim, nets, results, trace>>

\* bags, labels, molid = calc_3d_pmapper(..., nconfs=nc, ...)
Calc(here, next, nc) ==
    /\ pc = here
    /\ LET r == calc_3d_pmapper(dataset, nc)
       IN  /\ bags' = r[1]
           /\ labels' = r[2]
           /\ molid' = r[3]
    /\ trace' = Append(trace, Event("calc", nc))
    /\ pc' = next
    /\ UNCHANGED <<err, env, parts, ndim, nets, results>>

\* print(f'There are {len(bags)} molecules encoded with {bags[0].shape[1]} ...')
PrintBags(here, next) ==
    /\ pc = here
    /\ IF Len(bags.rows) = 0
       THEN Raise("IndexError")
       ELSE /\ out' = Append(out, Line("molecules", Len(bags.rows), Unbound, NoPred))
            /\ pc' = next
            /\ UNCHANGED <<err, env, data, parts, ndim, nets, predictions,
                           instance_weights, bars, trace>>

CalcMI == Calc("calc_mi", "print_mi", nconfs)

PrintMI == PrintBags("print_mi", "split_mi")

----------------------------------------------------------------------------
\* Cell 2: training and test set, scaling.

\* x_train, x_test, y_train, y_test, molid_train, molid_test =
\*     train_test_split(bags, labels, molid, random_state=42)
Split(here, next) ==
    /\ pc = here
    /\ IF n_train(Len(bags.rows)) = 0
       THEN Raise("ValueError")
       ELSE /\ LET r == train_test_split(bags, labels, molid, Count("split") + 1)
               IN  /\ x_train' = r[1]
                   /\ x_test' = r[2]
                   /\ y_train' = r[3]
                   /\ y_test' = r[4]
                   /\ molid_train' = r[5]
                   /\ molid_test' = r[6]
            /\ trace' = Append(trace, Event("split", 0))
            /\ pc' = next
            /\ UNCHANGED <<err, env, data, ndim, nets, results>>

\* x_train, x_test = scale_descriptors(x_train, x_test)
Scale(here, next) ==
    /\ pc = here
    /\ LET r == scale_descriptors(x_train, x_test, Count("scale") + 1)
       IN  /\ x_train' = r[1]
           /\ x_test' = r[2]
    /\ trace' = Append(trace, Event("scale", 0))
    /\ pc' = next
    /\ UNCHANGED <<err, env, data, y_train, y_test, molid_train, molid_test,
                   ndim, nets, results>>

\* The split with y_train and y_test unpacked in each other's place.
SplitMI_Swapped ==
    /\ pc = "split_mi"
    /\ IF n_train(Len(bags.rows)) = 0
       THEN Raise("ValueError")
       ELSE /\ LET r == train_test_split(bags, labels, molid, Count("split") + 1)
               IN  /\ x_train' = r[1]
                   /\ x_test' = r[2]
                   /\ y_test' = r[3]
                   /\ y_train' = r[4]
                   /\ molid_train' = r[5]
                   /\ molid_test' = r[6]
            /\ trace' = Append(trace, Event("split", 0))
            /\ pc' = "scale_mi"
            /\ UNCHANGED <<err, env, data, ndim, nets, results>>

SplitMI == Split("split_mi", "scale_mi")

ScaleMI == Scale("scale_mi", "hyper")

----------------------------------------------------------------------------
\* Cell 3: imports of the estimators, hyperparameters.

SetHyper ==
    /\ pc = "hyper"
    /\ hyper' = TRUE
    /\ pc' = "ndim_iw"
    /\ UNCHANGED <<err, folder, dataset, data, parts, ndim, nets, results, trace>>

----------------------------------------------------------------------------
\* The statements of the estimator cells.

\* ndim = (x_train[0].shape[-1], 256, 128, 64): the input width is the
\* number of descriptors of the calculation x_train comes from.
Ndim(here, next) ==
    /\ pc = here
    /\ ndim' = x_train.nconfs
    /\ pc' = next
    /\ UNCHANGED <<err, env, data, parts, nets, results, trace>>

\* ins_net = InstanceWrapperMLPRegressor(ndim=ndim, init_cuda=init_cuda)
NewIns(here, next) ==
    /\ pc = here
    /\ LET id == Count("construct") + 1
       IN  /\ ins_net' = NewEstimator("InstanceWrapperMLPRegressor", ndim, id)
           /\ trace' = Append(trace, Event("construct", id))
    /\ pc' = next
    /\ UNCHANGED <<err, env, data, parts, ndim, att_net, results>>

\* ins_net.fit(x_train, y_train, ...)
FitIns(here, next) ==
    /\ pc = here
    /\ ins_net' = fit(ins_net, x_train, y_train)
    /\ trace' = Append(trace, Event("fit", ins_net.id))
    /\ pc' = next
    /\ UNCHANGED <<err, env, data, parts, ndim, att_net, results>>

\* predictions = ins_net.predict(x_test)
PredictIns(here, next) ==
    /\ pc = here
    /\ predictions' = predict(ins_net, x_test)
    /\ trace' = Append(trace, Event("predict", ins_net.id))
    /\ pc' = next
    /\ UNCHANGED <<err, env, data, parts, ndim, nets, instance_weights, bars, out>>

\* print('<text>: r2_score test = {:.2f}'.format(r2_score(y_test, predictions)))
Score(here, next, text) ==
    /\ pc = here
    /\ out' = Append(out, Line(text, 0, y_test, predictions))
    /\ trace' = Append(trace, Event("score", predictions.by))
    /\ pc' = next
    /\ UNCHANGED <<err, env, data, parts, ndim, nets, predictions,
                   instance_weights, bars>>

----------------------------------------------------------------------------
\* Cell 4: Instance-Wrapper.

NdimIW == Ndim("ndim_iw", "new_iw")

NewIW == NewIns("new_iw", "fit_iw")

\* The cell without its fit statement.
FitIW_Omitted ==
    /\ pc = "fit_iw"
    /\ pc' = "predict_iw"
    /\ UNCHANGED <<err, env, data, parts, ndim, nets, results, trace>>

FitIW == FitIns("fit_iw", "predict_iw")

PredictIW == PredictIns("predict_iw", "score_iw")

ScoreIW == Score("score_iw", "ndim_att", "3D/MI/Instance-Wrapper")

----------------------------------------------------------------------------
\* Cell 5: Bag-AttentionNet.

\* ndim = ...; det_ndim = (64,); instance_dropout = 0.95
NdimAtt == Ndim("ndim_att", "new_att")

\* att_net = AttentionNetRegressor(ndim=ndim, det_ndim=det_ndim, init_cuda=init_cuda)
NewAtt ==
    /\ pc = "new_att"
    /\ LET id == Count("construct") + 1
       IN  /\ att_net' = NewEstimator("AttentionNetRegressor", ndim, id)
           /\ trace' = Append(trace, Event("construct", id))
    /\ pc' = "fit_att"
    /\ UNCHANGED <<err, env, data, parts, ndim, ins_net, results>>

\* att_net.fit(x_train, y_train, n_epoch=n_epoch, instance_dropout=..., ...)
FitAtt ==
    /\ pc = "fit_att"
    /\ att_net' = fit(att_net, x_train, y_train)
    /\ trace' = Append(trace, Event("fit", att_net.id))
    /\ pc' = "predict_att"
    /\ UNCHANGED <<err, env, data, parts, ndim, ins_net, results>>

\* predictions = att_net.predict(x_test)
PredictAtt ==
    /\ pc = "predict_att"
    /\ predictions' = predict(att_net, x_test)
    /\ trace' = Append(trace, Event("predict", att_net.id))
    /\ pc' = "score_att"
    /\ UNCHANGED <<err, env, data, parts, ndim, nets, instance_weights, bars, out>>

ScoreAtt == Score("score_att", "weights", "3D/MI/Bag-AttentionNet")

----------------------------------------------------------------------------
\* Cell 6: attention weights of the molecule of index n of the test set.

\* The weights asked for the training bags instead of the test bags.
GetWeights_OnTrain ==
    /\ pc = "weights"
    /\ instance_weights' = get_instance_weights(att_net, x_train)
    /\ trace' = Append(trace, Event("weights", att_net.id))
    /\ pc' = "plot"
    /\ UNCHANGED <<err, env, data, parts, ndim, nets, predictions, bars, out>>

\* instance_weights = att_net.get_instance_weights(x_test)
GetWeights ==
    /\ pc = "weights"
    /\ instance_weights' = get_instance_weights(att_net, x_test)
    /\ trace' = Append(trace, Event("weights", att_net.id))
    /\ pc' = "plot"
    /\ UNCHANGED <<err, env, data, parts, ndim, nets, predictions, bars, out>>

\* n = 2; x = list(range(len(instance_weights[n]))); y = instance_weights[n];
\* plot = sns.barplot(x=x, y=y); plot.set(...)
Plot ==
    /\ pc = "plot"
    /\ IF Len(instance_weights.lens) <= n
       THEN Raise("IndexError")
       ELSE /\ bars' = instance_weights.lens[n + 1]
            /\ pc' = "calc_si"
            /\ UNCHANGED <<err, env, data, parts, ndim, nets, predictions,
                           instance_weights, out, trace>>

----------------------------------------------------------------------------
\* Cell 7: single lowest-energy conformation, Single-Instance net.

CalcSI == Calc("calc_si", "print_si", 1)

PrintSI == PrintBags("print_si", "split_si")

\* The last cell without its own split: the earlier parts stay bound.
SplitSI_Omitted ==
    /\ pc = "split_si"
    /\ pc' = "scale_si"
    /\ UNCHANGED <<err, env, data, parts, ndim, nets, results, trace>>

SplitSI == Split("split_si", "scale_si")

ScaleSI == Scale("scale_si", "ndim_si")

NdimSI == Ndim("ndim_si", "new_si")

NewSI == NewIns("new_si", "fit_si")

FitSI == FitIns("fit_si", "predict_si")

PredictSI == PredictIns("predict_si", "score_si")

ScoreSI == Score("score_si", "done", "3D/SI/Net")

----------------------------------------------------------------------------
Next ==
    \/ Mkdir \/ CalcMI \/ PrintMI
    \/ SplitMI \/ ScaleMI
    \/ SetHyper
    \/ NdimIW \/ NewIW \/ FitIW \/ PredictIW \/ ScoreIW
    \/ NdimAtt \/ NewAtt \/ FitAtt \/ PredictAtt \/ ScoreAtt
    \/ GetWeights \/ Plot
    \/ CalcSI \/ PrintSI \/ SplitSI \/ ScaleSI
    \/ NdimSI \/ NewSI \/ FitSI \/ PredictSI \/ ScoreSI

Spec == Init /\ [][Next]_vars

----------------------------------------------------------------------------
\* Properties.

\* pat occurs in tr as a subsequence, from positions i of pat and j of tr on.
\* An id of -1 in pat matches any id.
RECURSIVE Follows(_, _, _, _)
Follows(pat, tr, i, j) ==
    IF i > Len(pat) THEN TRUE
    ELSE IF j > Len(tr) THEN FALSE
    ELSE IF /\ tr[j].op = pat[i].op
            /\ pat[i].id \in {-1, tr[j].id}
         THEN Follows(pat, tr, i + 1, j + 1)
         ELSE Follows(pat, tr, i, j + 1)

\* The calls that lead to a score of estimator id.
Pipeline(id) ==
    << Event("calc", -1), Event("split", -1), Event("scale", -1),
       Event("construct", id), Event("fit", id), Event("predict", id) >>

ScoreLines == {i \in DOMAIN out : out[i].text # "molecules"}

ScoreTexts == <<"3D/MI/Instance-Wrapper", "3D/MI/Bag-AttentionNet", "3D/SI/Net">>

ClassOf(text) ==
    IF text = "3D/MI/Bag-AttentionNet" THEN "AttentionNetRegressor"
    ELSE "InstanceWrapperMLPRegressor"

\* C1: every printed r2 score is preceded, in this order, by a descriptor
\* calculation, a split, a scaling, and the construction, the fit and the
\* predict of the estimator it scores; the scores come in the order
\* Instance-Wrapper, Bag-AttentionNet, single-instance net, each for an
\* estimator of its class, and none is printed for predictions of an
\* estimator that was not fitted.
C1_ScoresFollowPipeline ==
    /\ \A p \in DOMAIN trace :
          trace[p].op = "score" =>
             /\ trace[p].id # 0
             /\ Follows(Pipeline(trace[p].id), SubSeq(trace, 1, p - 1), 1, 1)
    /\ Cardinality(ScoreLines) = Count("score")
    /\ \A i \in ScoreLines :
          /\ out[i].pred.fitted
          /\ out[i].pred.by # 0
          /\ out[i].pred.cls = ClassOf(out[i].text)
    /\ \E k \in 0..3 :
          [i \in 1..k |-> out[CHOOSE j \in ScoreLines :
                                  Cardinality({l \in ScoreLines : l <= j}) = i].text]
             = SubSeq(ScoreTexts, 1, k)
    /\ pc = "done" => Cardinality(ScoreLines) = 3

\* The run reached the end and printed its three scores.
C1_Witness ==
    /\ pc = "done"
    /\ Count("score") = 3
    /\ Cardinality(ScoreLines) = 3

\* An array that comes from the nconfs=1 calculation, through the split and
\* the scaling of the last cell.
FromSingleConf(a) == a.nconfs = 1 /\ a.split = 2

\* C2: the single-instance net is fitted, asked to predict and scored on
\* data of the nconfs=1 calculation of its own cell only: every bag holds one
\* conformation, and nothing of the nconfs=100 calculation reaches the fit,
\* the predict or the score.
C2_SingleInstanceData ==
    /\ pc \in {"predict_si", "score_si", "done"} =>
          /\ ins_net.fitted
          /\ ins_net.ndim = 1
          /\ FromSingleConf(ins_net.fit_x) /\ ins_net.fit_x.scale = 2
          /\ ins_net.fit_x.part = "train"
          /\ FromSingleConf(ins_net.fit_y) /\ ins_net.fit_y.part = "train"
          /\ \A i \in DOMAIN ins_net.fit_x.rows : ins_net.fit_x.rows[i].ninst = 1
    /\ pc \in {"score_si", "done"} =>
          /\ predictions.by = ins_net.id
          /\ FromSingleConf(predictions.x) /\ predictions.x.scale = 2
          /\ predictions.x.part = "test"
          /\ \A i \in DOMAIN predictions.x.rows : predictions.x.rows[i].ninst = 1
    /\ \A i \in ScoreLines :
          out[i].text = "3D/SI/Net" =>
             /\ FromSingleConf(out[i].y) /\ out[i].y.part = "test"
             /\ FromSingleConf(out[i].pred.x)
             /\ out[i].pred.by = ins_net.id

\* The single-instance score is printed, for molecules of which at least one
\* has several conformations in the nconfs=100 bags.
C2_Witness ==
    /\ pc = "done"
    /\ \E i \in ScoreLines : out[i].text = "3D/SI/Net"
    /\ \E i \in DOMAIN dataset : dataset[i] > 1

\* C3: get_instance_weights is called only after att_net has been fitted, on
\* att_net, and with the test part of the split and scaling whose train part
\* att_net was fitted on.
C3_WeightsOfTrainedNet ==
    /\ \A p \in DOMAIN trace :
          trace[p].op = "weights" =>
             \E q \in 1..(p - 1) : trace[q] = Event("fit", trace[p].id)
    /\ instance_weights.by # 0 =>
          /\ instance_weights.by = att_net.id
          /\ instance_weights.fitted
          /\ att_net.fit_x.part = "train"
          /\ instance_weights.x.part = "test"
          /\ instance_weights.x.nconfs = att_net.fit_x.nconfs
          /\ instance_weights.x.split = att_net.fit_x.split
          /\ instance_weights.x.scale = att_net.fit_x.scale
          /\ instance_weights.x.scale # 0

\* The weights have been computed and the plot drawn.
C3_Witness ==
    /\ instance_weights.by # 0
    /\ bars > 0
    /\ pc = "calc_si"

\* Number of rows of a that belong to molecule m.
RowsOf(a, m) == Cardinality({i \in DOMAIN a.rows : a.rows[i].mol = m})

\* Two arrays are the same part of the same split of the same calculation.
SamePart(a, b) == a.nconfs = b.nconfs /\ a.split = b.split /\ a.part = b.part

\* C4: once the split is made, every molecule is in exactly one of the
\* training and the test set; x, y and molid of a part hold the same
\* molecules row by row; scaling changes x_train and x_test only, so the
\* rows are still aligned in what fit and r2_score receive.
C4_SplitAligned ==
    /\ x_train.nconfs # 0 =>
          /\ \A m \in 1..Len(dataset) : RowsOf(x_train, m) + RowsOf(x_test, m) = 1
          /\ Len(x_train.rows) + Len(x_test.rows) = Len(dataset)
          /\ Mols(x_train) = Mols(y_train) /\ Mols(y_train) = Mols(molid_train)
          /\ Mols(x_test) = Mols(y_test) /\ Mols(y_test) = Mols(molid_test)
          /\ SamePart(x_train, y_train) /\ SamePart(x_train, molid_train)
          /\ SamePart(x_test, y_test) /\ SamePart(x_test, molid_test)
          /\ x_train.part = "train" /\ x_test.part = "test"
          /\ x_train.scale = x_test.scale
          /\ y_train.scale = 0 /\ y_test.scale = 0
          /\ molid_train.scale = 0 /\ molid_test.scale = 0
    /\ \A est \in {ins_net, att_net} :
          est.fitted =>
             /\ Mols(est.fit_x) = Mols(est.fit_y)
             /\ SamePart(est.fit_x, est.fit_y)
             /\ est.fit_x.scale = est.fit_x.split
    /\ \A i \in ScoreLines :
          /\ Mols(out[i].y) = Mols(out[i].pred.x)
          /\ SamePart(out[i].y, out[i].pred.x)

\* Both splits were made and scaled, with several molecules in each part, and
\* the last estimator was fitted and scored on the second one.
C4_Witness ==
    /\ pc = "done"
    /\ x_train.split = 2 /\ x_train.scale = 2
    /\ Len(x_train.rows) > 1 /\ Len(x_test.rows) > 1
    /\ ins_net.fitted

====
